---- MODULE Spec2Model ----
(***************************************************************************)
(* A model of the segmented vector `SegVec<T>` of src/src/lib.rs: the      *)
(* growth tracker (Meta), the blocks, the directory (`index`), the cached  *)
(* pointer to the block being filled, and the public operations.           *)
(*                                                                         *)
(* Offsets and indices are 0-based as in the source; TLA+ sequences are    *)
(* 1-based, so directory position k is index[k + 1] and slot o of a block  *)
(* is mem[o + 1].                                                          *)
(***************************************************************************)
EXTENDS Integers, Sequences, FiniteSets, TLC

\* ------------------------------------------------------------------ bounds

\* The most elements a container holds in the model.
MaxLen == 8
\* The most blocks the directory holds in the model.
MaxBlocks == 4
\* The largest argument given to with_capacity.
MaxCapArg == 4
\* The largest argument given to reserve.
MaxAdditional == 5
\* The longest source sequence given to from_iter and extend.
MaxSeq == 4
\* The largest size-hint upper bound a source sequence reports.
MaxHint == 5
\* How far past length() the accessors are asked.
Beyond == 1
\* The largest of the small arguments given to with_capacity on the runs
\* at the limits of the machine arithmetic.
MaxOverflowCap == 17

\* --------------------------------------------------------------- constants

\* usize::BITS; the model is of a target with 16-bit usize, the narrowest
\* Rust supports, so that machine integers stay within TLC's.
USIZE_BITS == 16

\* What a read of memory that was never written may give: a bit pattern
\* that is no element of the container, or one that equals an element.
Garbage == {0, 1}

\* The content of a slot of a block's region that was never written
\* (alloc::alloc returns uninitialized memory).
Uninit == 0 - 1

\* size_of::<T>() for the element types the model covers: one byte, a
\* machine word, and more than 1024 bytes (MIN_NON_ZERO_CAP 8, 4 and 1).
ElemSizes == {1, 8, 2048}

None == [some |-> FALSE]
Some(x) == [some |-> TRUE, val |-> x]

RECURSIVE Pow2(_)
Pow2(n) == IF n = 0 THEN 1 ELSE 2 * Pow2(n - 1)

USIZE_MOD == Pow2(USIZE_BITS)

Max(a, b) == IF a >= b THEN a ELSE b

\* ------------------------------------------------- machine integer helpers

\* usize::BITS - x.leading_zeros(): the number of bits of x.
RECURSIVE BitLen(_)
BitLen(x) == IF x = 0 THEN 0 ELSE 1 + BitLen(x \div 2)

\* x.trailing_zeros() (usize::BITS for x = 0).
RECURSIVE trailing_zeros(_)
trailing_zeros(x) ==
    IF x = 0 THEN USIZE_BITS
    ELSE IF x % 2 = 1 THEN 0 ELSE 1 + trailing_zeros(x \div 2)

is_power_of_two(x) == x > 0 /\ Pow2(BitLen(x) - 1) = x

\* next_power_of_two leaving its argument as it is.
next_power_of_two_same(x) == x

\* x.next_power_of_two(): the smallest power of two >= x; 0 gives 1. In a
\* build without overflow checks a result that does not fit wraps to 0.
next_power_of_two(x) ==
    IF x <= 1 THEN 1
    ELSE IF is_power_of_two(x) THEN x
    ELSE Pow2(BitLen(x)) % USIZE_MOD

\* x << 1 on usize: the top bit is shifted out.
Shl1(x) == (2 * x) % USIZE_MOD

\* x >> s on usize.
Shr(x, s) == x \div Pow2(s)

\* a + b on usize, wrapping.
UAdd(a, b) == (a + b) % USIZE_MOD

\* isize::MAX, the most bytes one allocation may span.
isize_MAX == Pow2(USIZE_BITS - 1) - 1

\* Layout::array::<T>(cap) is an error: cap elements of `size` bytes span
\* more than isize::MAX bytes.
Layout_array_fails(size, cap) == cap * size > isize_MAX

\* ------------------------------------------------------------------- Meta

MIN_NON_ZERO_CAP(size) ==
    IF size = 1 THEN 8 ELSE IF size <= 1024 THEN 4 ELSE 1

\* Meta::with_capacity with block_shift the number of trailing zeros, not
\* one more.
Meta_with_capacity_shift(capacity) ==
    [ len              |-> 0,
      empty_data_block |-> 0,
      block_cap        |-> capacity,
      initial_cap      |-> capacity,
      block_shift      |-> trailing_zeros(capacity) ]

Meta_with_capacity(capacity) ==
    [ len              |-> 0,
      empty_data_block |-> 0,
      block_cap        |-> capacity,
      initial_cap      |-> capacity,
      block_shift      |-> trailing_zeros(capacity) + 1 ]

\* Meta::grow leaving block_cap as it is.
Meta_grow_same(meta) == meta

Meta_grow(meta) == [meta EXCEPT !.block_cap = Shl1(meta.block_cap)]

\* ------------------------------------------------------------------ Block

\* A region of n slots as alloc::alloc returns it: nothing written.
RECURSIVE Region(_)
Region(n) == IF n = 0 THEN << >> ELSE Append(Region(n - 1), Uninit)

\* A block: the region `ptr` names (regions are named in allocation order;
\* the allocator never hands out a live region twice), its capacity, the
\* number of slots written, the global index of its first slot, and the
\* content of the region.
Block_new(ptr, cap, prev_cap) ==
    [ ptr      |-> ptr,
      len      |-> 0,
      cap      |-> cap,
      prev_cap |-> prev_cap,
      mem      |-> Region(cap) ]

Block_is_full(b) == b.len = b.cap

\* Block::push writes slot `len` and counts it. Its result (whether the
\* block is now full) is Block_is_full of the block it leaves.
Block_push(b, element) ==
    [b EXCEPT !.mem = [b.mem EXCEPT ![b.len + 1] = element],
              !.len = b.len + 1]

\* What reading slot `off` of the region gives: the element written there,
\* or, for a slot never written (or past the region), whatever the memory
\* holds -- `garbage` stands for it.
ReadSlot(b, off, garbage) ==
    IF off < b.cap /\ b.mem[off + 1] # Uninit THEN b.mem[off + 1] ELSE garbage

\* A reference into a block: the region, the offset, and what a read of
\* it gives.
Ref(b, off, garbage) ==
    [ptr |-> b.ptr, off |-> off, elem |-> ReadSlot(b, off, garbage)]

\* Block::get without the subtraction of prev_cap.
Block_get_global(b, idx, garbage) ==
    IF idx > b.len \/ b.len = 0 THEN None
    ELSE Some(Ref(b, idx, garbage))

\* Block::get: the global index less prev_cap is the offset; absent when
\* the offset is > len or the block is empty.
Block_get(b, idx, garbage) ==
    LET off == idx - b.prev_cap
    IN  IF off > b.len \/ b.len = 0 THEN None
        ELSE Some(Ref(b, off, garbage))

\* Block::get_mut: compares the index it is given with len and uses it as
\* the offset; prev_cap is not subtracted.
Block_get_mut(b, idx, garbage) ==
    IF idx >= b.len THEN None
    ELSE Some(Ref(b, idx, garbage))

\* Block::as_slice over the whole region instead of the written prefix.
Block_as_slice_whole(b) == b.mem

\* Block::as_slice: the written prefix.
Block_as_slice(b) == SubSeq(b.mem, 1, b.len)

\* Drop for Block running the destructor of every slot of the region.
Block_drop_region(b) == [destructed |-> b.mem, released |-> b.ptr]

\* Drop for Block: drop_in_place of the slice of the `len` written slots,
\* in order, then dealloc of the region.
Block_drop(b) ==
    [destructed |-> SubSeq(b.mem, 1, b.len), released |-> b.ptr]

\* ----------------------------------------------------------------- SegVec

\* Vec::reserve(additional) on the directory's backing array: the capacity
\* after it (amortized doubling), unchanged when there is room.
Vec_reserve_cap(cap, len, additional) ==
    IF cap - len >= additional THEN cap
    ELSE Max(Max(2 * cap, len + additional), 4)

\* Vec::push on the directory's backing array: the capacity it needs.
Vec_push_cap(cap, len) ==
    IF len < cap THEN cap ELSE Max(Max(2 * cap, len + 1), 4)

SegVec_new(size) ==
    [ size              |-> size,
      meta              |-> Meta_with_capacity(MIN_NON_ZERO_CAP(size)),
      index             |-> << >>,
      index_cap         |-> 0,
      index_buf         |-> 0,
      capacity          |-> 0,
      first_empty_block |-> None ]

\* SegVec::grow putting the new block first in the directory.
SegVec_grow_prepend(s) ==
    LET meta1 == IF s.capacity # 0 THEN Meta_grow(s.meta) ELSE s.meta
        n     == Len(s.index)
        blk   == Block_new(n + 1, meta1.block_cap, s.capacity)
    IN  [s EXCEPT !.meta = meta1,
                   !.index = <<blk>> \o s.index,
                   !.index_cap = Max(s.index_cap, 64),
                   !.index_buf = s.index_buf,
                   !.capacity = UAdd(s.capacity, meta1.block_cap),
                   !.first_empty_block =
                       Some([ buf |-> s.index_buf,
                              pos |-> meta1.empty_data_block ])]

\* SegVec::grow adding to the capacity the block_cap of before the
\* doubling.
SegVec_grow_stale(s) ==
    LET meta1 == IF s.capacity # 0 THEN Meta_grow(s.meta) ELSE s.meta
        n     == Len(s.index)
        blk   == Block_new(n + 1, meta1.block_cap, s.capacity)
    IN  [s EXCEPT !.meta = meta1,
                   !.index = Append(s.index, blk),
                   !.index_cap = Max(s.index_cap, 64),
                   !.capacity = UAdd(s.capacity, s.meta.block_cap),
                   !.first_empty_block =
                       Some([ buf |-> s.index_buf,
                              pos |-> meta1.empty_data_block ])]

\* SegVec::grow giving the new block the length, not the capacity, as its
\* prev_cap.
SegVec_grow_prev_len(s) ==
    LET meta1 == IF s.capacity # 0 THEN Meta_grow(s.meta) ELSE s.meta
        n     == Len(s.index)
        blk   == Block_new(n + 1, meta1.block_cap, s.meta.len)
    IN  [s EXCEPT !.meta = meta1,
                   !.index = Append(s.index, blk),
                   !.index_cap = Max(s.index_cap, 64),
                   !.capacity = UAdd(s.capacity, meta1.block_cap),
                   !.first_empty_block =
                       Some([ buf |-> s.index_buf,
                              pos |-> meta1.empty_data_block ])]

\* SegVec::grow binding first_empty_block only when there is none.
SegVec_grow_keep_ptr(s) ==
    LET meta1 == IF s.capacity # 0 THEN Meta_grow(s.meta) ELSE s.meta
        n     == Len(s.index)
        blk   == Block_new(n + 1, meta1.block_cap, s.capacity)
    IN  [s EXCEPT !.meta = meta1,
                   !.index = Append(s.index, blk),
                   !.index_cap = Max(s.index_cap, 64),
                   !.capacity = UAdd(s.capacity, meta1.block_cap),
                   !.first_empty_block =
                       IF s.first_empty_block = None
                       THEN Some([ buf |-> s.index_buf,
                                   pos |-> meta1.empty_data_block ])
                       ELSE s.first_empty_block]

\* SegVec::grow binding first_empty_block to the block it appended.
SegVec_grow_ptr_last(s) ==
    LET meta1 == IF s.capacity # 0 THEN Meta_grow(s.meta) ELSE s.meta
        n     == Len(s.index)
        blk   == Block_new(n + 1, meta1.block_cap, s.capacity)
    IN  [s EXCEPT !.meta = meta1,
                   !.index = Append(s.index, blk),
                   !.index_cap = Max(s.index_cap, 64),
                   !.capacity = UAdd(s.capacity, meta1.block_cap),
                   !.first_empty_block =
                       Some([buf |-> s.index_buf, pos |-> n])]

\* SegVec::grow: double block_cap unless this is the first block, append a
\* block of block_cap slots whose prev_cap is the capacity so far, add
\* block_cap to the capacity, and point first_empty_block at directory
\* position empty_data_block. The directory's backing array moves
\* (index_buf changes) whenever its capacity has to change.
SegVec_grow(s) ==
    LET meta1 == IF s.capacity # 0 THEN Meta_grow(s.meta) ELSE s.meta
        n     == Len(s.index)
        cap1  == IF s.capacity # 0 THEN s.index_cap
                 ELSE Vec_reserve_cap(s.index_cap, n, 64)
        cap2  == Vec_push_cap(cap1, n)
        buf2  == IF cap2 # s.index_cap THEN s.index_buf + 1 ELSE s.index_buf
        blk   == Block_new(n + 1, meta1.block_cap, s.capacity)
    IN  [s EXCEPT !.meta = meta1,
                   !.index = Append(s.index, blk),
                   !.index_cap = cap2,
                   !.index_buf = buf2,
                   !.capacity = UAdd(s.capacity, meta1.block_cap),
                   !.first_empty_block =
                       Some([buf |-> buf2, pos |-> meta1.empty_data_block])]

\* SegVec::grow panics: Block::new's Layout::array::<T>(block_cap) is an
\* error ("invalid layout").
SegVec_grow_panics(s) ==
    LET meta1 == IF s.capacity # 0 THEN Meta_grow(s.meta) ELSE s.meta
    IN  Layout_array_fails(s.size, meta1.block_cap)

SegVec_with_capacity(size, capacity) ==
    LET c1 == IF ~is_power_of_two(capacity)
              THEN next_power_of_two(capacity) ELSE capacity
        c2 == Max(c1, MIN_NON_ZERO_CAP(size))
    IN  SegVec_grow([ size              |-> size,
                      meta              |-> Meta_with_capacity(c2),
                      index             |-> << >>,
                      index_cap         |-> Max(c2, 64),
                      index_buf         |-> 0,
                      capacity          |-> 0,
                      first_empty_block |-> None ])

\* size_of::<Block<T>>(): a pointer and three usize.
Block_size == 4 * (USIZE_BITS \div 8)

\* Vec::with_capacity(n) for the directory panics ("capacity overflow"):
\* n entries span more than isize::MAX bytes.
Vec_with_capacity_panics(n) == n * Block_size > isize_MAX

\* What SegVec::with_capacity leaves: the container, or a panic.
\* `overflow_checks` is whether the build checks arithmetic overflow:
\* with the checks next_power_of_two panics when its result does not fit
\* a usize, without them the result wraps to 0. After the rounding come
\* the allocation of the directory and of the first block.
WithCapacityOutcome(size, capacity, overflow_checks) ==
    LET rounds == ~is_power_of_two(capacity)
        c1 == IF rounds THEN next_power_of_two(capacity) ELSE capacity
        c2 == Max(c1, MIN_NON_ZERO_CAP(size))
    IN  IF rounds /\ capacity > Pow2(USIZE_BITS - 1) /\ overflow_checks
        THEN [panic |-> TRUE]
        ELSE IF Vec_with_capacity_panics(Max(c2, 64))
        THEN [panic |-> TRUE]
        ELSE IF Layout_array_fails(size, c2)
        THEN [panic |-> TRUE]
        ELSE [panic |-> FALSE, sv |-> SegVec_with_capacity(size, capacity)]

SegVec_capacity(s) == s.capacity

SegVec_len(s) == s.meta.len

\* SegVec::reserve growing once instead of in a loop.
SegVec_reserve_once(s, additional) ==
    IF additional = 0 THEN s
    ELSE IF SegVec_capacity(s) - SegVec_len(s) < additional
         THEN SegVec_grow(s)
         ELSE s

\* SegVec::reserve growing while capacity() - len() <= additional.
RECURSIVE SegVec_reserve_eager(_, _)
SegVec_reserve_eager(s, additional) ==
    IF additional = 0 THEN s
    ELSE IF SegVec_capacity(s) - SegVec_len(s) <= additional
         THEN SegVec_reserve_eager(SegVec_grow(s), additional)
         ELSE s

\* SegVec::reserve that also gives back a trailing empty block the
\* request does not need.
RECURSIVE SegVec_reserve_fit(_, _)
SegVec_reserve_fit(s, additional) ==
    LET n == Len(s.index)
    IN  IF additional = 0 THEN s
        ELSE IF SegVec_capacity(s) - SegVec_len(s) < additional
        THEN SegVec_reserve_fit(SegVec_grow(s), additional)
        ELSE IF /\ n > s.meta.empty_data_block + 1
                /\ s.index[n].prev_cap - SegVec_len(s) >= additional
        THEN [s EXCEPT !.index = SubSeq(s.index, 1, n - 1),
                        !.capacity = s.index[n].prev_cap,
                        !.meta.block_cap = s.index[n - 1].cap]
        ELSE s

\* SegVec::reserve making each block it appends the current block.
RECURSIVE SegVec_reserve_advance(_, _)
SegVec_reserve_advance(s, additional) ==
    IF additional = 0 THEN s
    ELSE IF SegVec_capacity(s) - SegVec_len(s) < additional
         THEN SegVec_reserve_advance(
                  SegVec_grow([s EXCEPT !.meta.empty_data_block =
                                             Len(s.index)]),
                  additional)
         ELSE s

\* SegVec::reserve: nothing for additional = 0; otherwise grow while
\* capacity() - len() < additional.  The assert!(additional < isize::MAX)
\* that precedes the loop holds for every additional <= MaxAdditional.
RECURSIVE SegVec_reserve(_, _)
SegVec_reserve(s, additional) ==
    IF additional = 0 THEN s
    ELSE IF SegVec_capacity(s) - SegVec_len(s) < additional
         THEN SegVec_reserve(SegVec_grow(s), additional)
         ELSE s

\* The loop of SegVec::reserve panics: one of the blocks it has to append
\* cannot be laid out.
RECURSIVE SegVec_reserve_loop_panics(_, _)
SegVec_reserve_loop_panics(s, additional) ==
    /\ SegVec_capacity(s) - SegVec_len(s) < additional
    /\ \/ SegVec_grow_panics(s)
       \/ SegVec_reserve_loop_panics(SegVec_grow(s), additional)

\* SegVec::reserve panics: assert!(additional < isize::MAX) fails, or the
\* loop panics.
SegVec_reserve_panics(s, additional) ==
    \/ additional >= isize_MAX
    \/ additional # 0 /\ SegVec_reserve_loop_panics(s, additional)

\* SegVec::locate: the number of bits of (i + initial_cap) >> block_shift.
SegVec_locate(s, i) ==
    BitLen(Shr(UAdd(i, s.meta.initial_cap), s.meta.block_shift))

\* Vec::get on the directory.
Index_get(s, k) == IF k < Len(s.index) THEN Some(s.index[k + 1]) ELSE None

\* SegVec::get: absent when idx > len, else Block::get of the block that
\* locate names (absent when the directory has no such block).
SegVec_get(s, idx, garbage) ==
    IF idx > s.meta.len THEN None
    ELSE LET b == Index_get(s, SegVec_locate(s, idx))
         IN  IF ~b.some THEN None ELSE Block_get(b.val, idx, garbage)

\* SegVec::get_mut: the same with Block::get_mut.
SegVec_get_mut(s, idx, garbage) ==
    IF idx > s.meta.len THEN None
    ELSE LET b == Index_get(s, SegVec_locate(s, idx))
         IN  IF ~b.some THEN None ELSE Block_get_mut(b.val, idx, garbage)

\* The pointer first_empty_block designates a live directory entry: it
\* points into the directory's present backing array, at a position the
\* directory holds.
PtrLive(s, p) == p.buf = s.index_buf /\ p.pos < Len(s.index)

\* SegVec::push, first part: grow if there is no current block.
PushTarget(s) ==
    IF s.first_empty_block = None THEN SegVec_grow(s) ELSE s

\* The write of SegVec::push goes through a dangling pointer.
PushDangling(s) ==
    ~PtrLive(PushTarget(s), PushTarget(s).first_empty_block.val)

\* The write of SegVec::push finds the block full (Block::push's
\* debug assertion).
PushIntoFull(s) ==
    /\ ~PushDangling(s)
    /\ LET s1 == PushTarget(s)
       IN  Block_is_full(s1.index[s1.first_empty_block.val.pos + 1])

\* SegVec::push panics: the block it has to append, for want of a current
\* block or because the write filled the current one, cannot be laid out.
PushPanics(s) ==
    \/ s.first_empty_block = None /\ SegVec_grow_panics(s)
    \/ LET s1 == PushTarget(s)
           k  == s1.first_empty_block.val.pos + 1
           b2 == Block_push(s1.index[k], 0)
       IN  /\ Block_is_full(b2)
           /\ SegVec_grow_panics(
                  [s1 EXCEPT !.index[k] = b2, !.meta.empty_data_block = @ + 1])

\* SegVec::push up to the write, leaving the growth to the next push.
PushWritten_lazy(s, element) ==
    LET s1 == PushTarget(s)
        k  == s1.first_empty_block.val.pos + 1
    IN  [s1 EXCEPT !.index[k] = Block_push(s1.index[k], element)]

\* SegVec::push up to the write, growing when the write filled the block
\* but leaving empty_data_block as it is.
PushWritten_no_advance(s, element) ==
    LET s1 == PushTarget(s)
        k  == s1.first_empty_block.val.pos + 1
        b2 == Block_push(s1.index[k], element)
        s2 == [s1 EXCEPT !.index[k] = b2]
    IN  IF Block_is_full(b2) THEN SegVec_grow(s2) ELSE s2

\* SegVec::push up to the write: write into the block first_empty_block
\* points at; if that filled it, advance empty_data_block and grow.
PushWritten(s, element) ==
    LET s1 == PushTarget(s)
        k  == s1.first_empty_block.val.pos + 1
        b2 == Block_push(s1.index[k], element)
        s2 == [s1 EXCEPT !.index[k] = b2]
    IN  IF Block_is_full(b2)
        THEN SegVec_grow([s2 EXCEPT !.meta.empty_data_block = @ + 1])
        ELSE s2

\* SegVec::push that does not count the element.
SegVec_push_uncounted(s, element) == PushWritten(s, element)

\* SegVec::push: the write, then count the element.
SegVec_push(s, element) ==
    [PushWritten(s, element) EXCEPT !.meta.len = UAdd(@, 1)]

\* SegVec::push returning the length after the element is counted.
SegVec_push_ret_after(s, element) ==
    UAdd(PushWritten(s, element).meta.len, 1)

\* What SegVec::push returns: meta.len as read after the write and before
\* it is counted.
SegVec_push_ret(s, element) == PushWritten(s, element).meta.len

\* size_hint_capacity: the upper bound if there is one, else the lower.
size_hint_capacity(lower, upper) == IF upper.some THEN upper.val ELSE lower

RECURSIVE PushAll(_, _)
PushAll(s, items) ==
    IF items = << >> THEN s
    ELSE PushAll(SegVec_push(s, Head(items)), Tail(items))

\* One of the pushes of the items panics.
RECURSIVE PushAllPanics(_, _)
PushAllPanics(s, items) ==
    /\ items # << >>
    /\ ~(PushDangling(s) \/ PushIntoFull(s))
    /\ \/ PushPanics(s)
       \/ PushAllPanics(SegVec_push(s, Head(items)), Tail(items))

\* One of the pushes of the items writes through a dangling pointer or
\* into a full block.
RECURSIVE PushAllUndefined(_, _)
PushAllUndefined(s, items) ==
    /\ items # << >>
    /\ \/ PushDangling(s)
       \/ PushIntoFull(s)
       \/ /\ ~PushPanics(s)
          /\ PushAllUndefined(SegVec_push(s, Head(items)), Tail(items))

\* Extend::extend runs into undefined behaviour in one of its pushes.
SegVec_extend_undefined(s, items, lower, upper) ==
    /\ ~SegVec_reserve_panics(s, size_hint_capacity(lower, upper))
    /\ PushAllUndefined(SegVec_reserve(s, size_hint_capacity(lower, upper)),
                        items)

\* Extend::extend panics: in the reserve or in one of the pushes.
SegVec_extend_panics(s, items, lower, upper) ==
    \/ SegVec_reserve_panics(s, size_hint_capacity(lower, upper))
    \/ PushAllPanics(SegVec_reserve(s, size_hint_capacity(lower, upper)),
                     items)

\* Extend::extend pushing the items last to first.
RECURSIVE Reversed(_)
Reversed(items) ==
    IF items = << >> THEN << >>
    ELSE Append(Reversed(Tail(items)), Head(items))

SegVec_extend_backwards(s, items, lower, upper) ==
    PushAll(SegVec_reserve(s, size_hint_capacity(lower, upper)),
            Reversed(items))

\* Extend::extend: reserve the size hint, then push every item.
SegVec_extend(s, items, lower, upper) ==
    PushAll(SegVec_reserve(s, size_hint_capacity(lower, upper)), items)

\* FromIterator::from_iter: with_capacity of the size hint, then push
\* every item.
SegVec_from_iter(size, items, lower, upper) ==
    PushAll(SegVec_with_capacity(size, size_hint_capacity(lower, upper)), items)

\* The drop of the directory, a Vec<Block<T>>: Drop for Block of every
\* entry, first to last.
RECURSIVE Vec_drop(_)
Vec_drop(index) ==
    IF index = << >> THEN [destructed |-> << >>, released |-> << >>]
    ELSE LET first == Block_drop(Head(index))
             rest  == Vec_drop(Tail(index))
         IN  [ destructed |-> first.destructed \o rest.destructed,
               released   |-> <<first.released>> \o rest.released ]

\* The drop of a SegVec: SegVec has no Drop of its own, so its fields are
\* dropped; only the directory owns anything (first_empty_block is a raw
\* pointer).
SegVec_drop(s) == Vec_drop(s.index)

\* ------------------------------------------------------------------- Iter

\* The static empty slice `[]` that iter() starts on when the directory
\* is empty.
NoBlock == 0 - 1

\* SegVec::iter: `blocks` is the directory position slice::Iter will give
\* next, `curr_block` the slice being walked (directory position, next
\* offset, end), `len` the length at creation.
SegVec_iter(s) ==
    IF Len(s.index) > 0
    THEN [ len    |-> SegVec_len(s),
           blocks |-> 1,
           curr_block |-> [ blk |-> 0, pos |-> 0,
                            end |-> Len(Block_as_slice(s.index[1])) ] ]
    ELSE [ len    |-> SegVec_len(s),
           blocks |-> 0,
           curr_block |-> [blk |-> NoBlock, pos |-> 0, end |-> 0] ]

\* Iter::next: the next element of the current slice; when the slice is
\* used up, move to the next block's slice, until the directory is used
\* up. Gives the iterator it leaves and the element (or None).
RECURSIVE Iter_next(_, _)
Iter_next(s, it) ==
    LET c == it.curr_block
    IN  IF c.pos < c.end
        THEN [ iter |-> [it EXCEPT !.curr_block.pos = c.pos + 1],
               item |-> Some(Block_as_slice(s.index[c.blk + 1])[c.pos + 1]) ]
        ELSE IF it.blocks < Len(s.index)
        THEN Iter_next(s, [it EXCEPT
                 !.blocks = it.blocks + 1,
                 !.curr_block =
                     [ blk |-> it.blocks, pos |-> 0,
                       end |-> Len(Block_as_slice(s.index[it.blocks + 1])) ]])
        ELSE [iter |-> it, item |-> None]

\* ExactSizeIterator::len of Iter: the field `len`.
Iter_len(it) == it.len

\* Iterator::size_hint of Iter: (len, Some(len)).
Iter_size_hint(it) == <<it.len, Some(it.len)>>

\* ---------------------------------------------------------------- program

VARIABLES
    \* "live": the container exists; "panicked": an operation ended in a
    \* panic; "ub": an operation ran into undefined behaviour; "dropped":
    \* the container went out of scope.
    life,
    \* The SegVec.
    sv,
    \* Every element pushed so far, in order (a record of the run).
    pushed,
    \* The last operation: its name, argument, result, and the length,
    \* capacity and number of blocks before it.
    last,
    \* The Iter borrowed from the container, if any, and what it has
    \* yielded so far.
    iter,
    yielded,
    \* What the teardown of the container did: the elements whose
    \* destructor ran and the regions given back to the allocator, each in
    \* the order it happened.
    teardown

vars == <<life, sv, pushed, last, iter, yielded, teardown>>

\* Nothing destructed, nothing released.
NotTornDown == [destructed |-> << >>, released |-> << >>]

Snapshot(s) ==
    [len |-> SegVec_len(s), cap |-> SegVec_capacity(s), nblocks |-> Len(s.index)]

Op(name, arg, ret, before) ==
    [op |-> name, arg |-> arg, ret |-> ret, pre |-> Snapshot(before)]

\* SegVec<T> never inspects, compares or clones an element, so the model
\* names each element by its rank in the order of the pushes: the n-th
\* element ever given to the container is n.
Fresh(n) == Len(pushed) + n

\* The elements first + 1, ..., first + n as a sequence.
RECURSIVE Ranks(_, _)
Ranks(first, n) ==
    IF n = 0 THEN << >> ELSE Append(Ranks(first, n - 1), first + n)

\* The source sequences given to from_iter and extend: the next n elements.
Sources == {Ranks(Len(pushed), n) : n \in 0..MaxSeq}

\* The size hints (lower, upper) a source of n items may report: the lower
\* bound is at most n; the upper, if any, at least n.
Lowers(n) == 0..n
Uppers(n) == {None} \cup {Some(u) : u \in n..MaxHint}

InitNew ==
    \E size \in ElemSizes :
        /\ sv = SegVec_new(size)
        /\ pushed = << >>
        /\ last = Op("new", 0, 0, sv)

InitWithCapacity ==
    \E size \in ElemSizes, c \in 0..MaxCapArg :
        /\ sv = SegVec_with_capacity(size, c)
        /\ pushed = << >>
        /\ last = Op("with_capacity", c, 0, sv)

InitFromIter ==
    \E size \in ElemSizes, n \in 0..MaxSeq :
        \E items \in {Ranks(0, n)}, lower \in Lowers(n), upper \in Uppers(n) :
            /\ sv = SegVec_from_iter(size, items, lower, upper)
            /\ Len(sv.index) <= MaxBlocks
            /\ pushed = items
            /\ last = Op("from_iter", items, 0, sv)

Init ==
    /\ life = "live"
    /\ iter = None
    /\ yielded = << >>
    /\ teardown = NotTornDown
    /\ (InitNew \/ InitWithCapacity \/ InitFromIter)

Idle == life = "live" /\ iter = None

DoPush ==
    \E v \in {Fresh(1)} :
        /\ Idle
        /\ Len(pushed) < MaxLen
        /\ IF PushDangling(sv) \/ PushIntoFull(sv)
           THEN /\ life' = "ub"
                /\ last' = Op("push", v, 0, sv)
                /\ UNCHANGED <<sv, pushed, iter, yielded, teardown>>
           ELSE IF PushPanics(sv)
           THEN /\ life' = "panicked"
                /\ last' = Op("push", v, 0, sv)
                /\ UNCHANGED <<sv, pushed, iter, yielded, teardown>>
           ELSE /\ Len(SegVec_push(sv, v).index) <= MaxBlocks
                /\ sv' = SegVec_push(sv, v)
                /\ pushed' = Append(pushed, v)
                /\ last' = Op("push", v, SegVec_push_ret(sv, v), sv)
                /\ UNCHANGED <<life, iter, yielded, teardown>>

\* What SegVec::reserve leaves: the container, or a panic.
ReserveOutcome(s, additional) ==
    IF SegVec_reserve_panics(s, additional)
    THEN [panic |-> TRUE]
    ELSE [panic |-> FALSE, sv |-> SegVec_reserve(s, additional)]

DoReserve ==
    \E additional \in 0..MaxAdditional :
        /\ Idle
        /\ LET after == ReserveOutcome(sv, additional)
           IN  IF after.panic
               THEN /\ life' = "panicked"
                    /\ UNCHANGED sv
               ELSE /\ Len(after.sv.index) <= MaxBlocks
                    /\ sv' = after.sv
                    /\ UNCHANGED life
        /\ last' = Op("reserve", additional, 0, sv)
        /\ UNCHANGED <<pushed, iter, yielded, teardown>>

\* What Extend::extend leaves: the container, or how the call ended (a
\* panic, or undefined behaviour).
ExtendOutcome(s, items, lower, upper) ==
    IF SegVec_extend_undefined(s, items, lower, upper)
    THEN [panic |-> TRUE, life |-> "ub"]
    ELSE IF SegVec_extend_panics(s, items, lower, upper)
    THEN [panic |-> TRUE, life |-> "panicked"]
    ELSE [panic |-> FALSE, sv |-> SegVec_extend(s, items, lower, upper)]

DoExtend ==
    \E items \in Sources :
        \E after \in {ExtendOutcome(sv, items, lower, upper) :
                           lower \in Lowers(Len(items)),
                           upper \in Uppers(Len(items))} :
            /\ Idle
            /\ Len(pushed) + Len(items) <= MaxLen
            /\ IF after.panic
               THEN /\ life' = after.life
                    /\ last' = Op("extend", items, 0, sv)
                    /\ UNCHANGED <<sv, pushed, iter, yielded, teardown>>
               ELSE /\ Len(after.sv.index) <= MaxBlocks
                    /\ sv' = after.sv
                    /\ pushed' = pushed \o items
                    /\ last' = Op("extend", items, 0, sv)
                    /\ UNCHANGED <<life, iter, yielded, teardown>>

Indices == 0..(SegVec_len(sv) + Beyond)

DoGet ==
    \E idx \in Indices :
      \E ret \in {SegVec_get(sv, idx, garbage) : garbage \in Garbage} :
        /\ Idle
        /\ last' = Op("get", idx, ret, sv)
        /\ UNCHANGED <<life, sv, pushed, iter, yielded, teardown>>

DoGetMut ==
    \E idx \in Indices :
      \E ret \in {SegVec_get_mut(sv, idx, garbage) : garbage \in Garbage} :
        /\ Idle
        /\ last' = Op("get_mut", idx, ret, sv)
        /\ UNCHANGED <<life, sv, pushed, iter, yielded, teardown>>

\* The panic of the indexing operators: the message carries len and idx.
OutOfBounds(len, idx) == [panic |-> TRUE, len |-> len, idx |-> idx]
Indexed(ref) == [panic |-> FALSE, ref |-> ref]

\* Index::index: the element get gives, or the panic.
SegVec_index(s, idx, garbage) ==
    LET r == SegVec_get(s, idx, garbage)
    IN  IF ~r.some THEN OutOfBounds(SegVec_len(s), idx) ELSE Indexed(r.val)

\* IndexMut::index_mut: the element get_mut gives, or the panic.
SegVec_index_mut(s, idx, garbage) ==
    LET len == s.meta.len
        r   == SegVec_get_mut(s, idx, garbage)
    IN  IF ~r.some THEN OutOfBounds(len, idx) ELSE Indexed(r.val)

DoIndex ==
    \E idx \in Indices :
      \E ret \in {SegVec_index(sv, idx, garbage) : garbage \in Garbage} :
        /\ Idle
        /\ last' = Op("index", idx, ret, sv)
        /\ life' = IF last'.ret.panic THEN "panicked" ELSE life
        /\ UNCHANGED <<sv, pushed, iter, yielded, teardown>>

DoIndexMut ==
    \E idx \in Indices :
      \E ret \in {SegVec_index_mut(sv, idx, garbage) : garbage \in Garbage} :
        /\ Idle
        /\ last' = Op("index_mut", idx, ret, sv)
        /\ life' = IF last'.ret.panic THEN "panicked" ELSE life
        /\ UNCHANGED <<sv, pushed, iter, yielded, teardown>>

DoIter ==
    /\ Idle
    /\ iter' = Some(SegVec_iter(sv))
    /\ yielded' = << >>
    /\ last' = Op("iter", 0, 0, sv)
    /\ UNCHANGED <<life, sv, pushed, teardown>>

DoIterNext ==
    /\ life = "live"
    /\ iter # None
    /\ LET r == Iter_next(sv, iter.val)
       IN  /\ iter' = Some(r.iter)
           /\ yielded' = IF r.item.some THEN Append(yielded, r.item.val)
                         ELSE yielded
           /\ last' = Op("next", 0, r.item, sv)
    /\ UNCHANGED <<life, sv, pushed, teardown>>

\* The iterator goes out of scope; the container can be changed again.
DoIterDrop ==
    /\ life = "live"
    /\ iter # None
    /\ iter' = None
    /\ yielded' = << >>
    /\ last' = Op("iter_drop", 0, 0, sv)
    /\ UNCHANGED <<life, sv, pushed, teardown>>

\* The container goes out of scope (no borrow of it is alive). `sv`
\* keeps what the container was when it was torn down.
DoDrop ==
    /\ Idle
    /\ life' = "dropped"
    /\ teardown' = SegVec_drop(sv)
    /\ last' = Op("drop", 0, 0, sv)
    /\ UNCHANGED <<sv, pushed, iter, yielded>>

Next ==
    \/ DoPush
    \/ DoReserve
    \/ DoExtend
    \/ DoGet
    \/ DoGetMut
    \/ DoIndex
    \/ DoIndexMut
    \/ DoIter
    \/ DoIterNext
    \/ DoIterDrop
    \/ DoDrop

Spec == Init /\ [][Next]_vars

\* The runs in which a container made by with_capacity is changed by push
\* alone (and read).
InitPushOnly ==
    /\ life = "live"
    /\ iter = None
    /\ yielded = << >>
    /\ teardown = NotTornDown
    /\ InitWithCapacity

NextPushOnly ==
    \/ DoPush
    \/ DoGet
    \/ DoGetMut
    \/ DoIndex
    \/ DoIndexMut

SpecPushOnly == InitPushOnly /\ [][NextPushOnly]_vars

\* The runs in which a container built by from_iter is iterated, any
\* number of times, and not changed.
InitBuilt ==
    /\ life = "live"
    /\ iter = None
    /\ yielded = << >>
    /\ teardown = NotTornDown
    /\ InitFromIter

NextBuilt ==
    \/ DoIter
    \/ DoIterNext
    \/ DoIterDrop

SpecBuilt == InitBuilt /\ [][NextBuilt]_vars

\* The runs in which a container made empty, by new or with_capacity, is
\* changed by extend alone (and read by get).
InitEmpty ==
    /\ life = "live"
    /\ iter = None
    /\ yielded = << >>
    /\ teardown = NotTornDown
    /\ (InitNew \/ InitWithCapacity)

NextExtendOnly ==
    \/ DoExtend
    \/ DoGet

SpecExtendOnly == InitEmpty /\ [][NextExtendOnly]_vars

\* The runs at the limits of the machine arithmetic. The element sizes
\* are those for which a block the model can reach is too large to lay
\* out; the arguments are the small ones and those around isize::MAX and
\* usize::MAX.
OverflowSizes == {size \in ElemSizes : Layout_array_fails(size, 2 * MaxLen)}

OverflowCapacities ==
    (0..MaxOverflowCap)
        \cup {isize_MAX, isize_MAX + 1, isize_MAX + 2, USIZE_MOD - 1}

OverflowAdditionals ==
    (0..MaxAdditional)
        \cup {MaxOverflowCap, isize_MAX - 1, isize_MAX, USIZE_MOD - 1}

InitOverflow ==
    /\ iter = None
    /\ yielded = << >>
    /\ teardown = NotTornDown
    /\ pushed = << >>
    /\ \E size \in OverflowSizes, c \in OverflowCapacities,
          overflow_checks \in BOOLEAN :
           LET made == WithCapacityOutcome(size, c, overflow_checks)
           IN  /\ life = IF made.panic THEN "panicked" ELSE "live"
               /\ sv = IF made.panic THEN SegVec_new(size) ELSE made.sv
               /\ last = Op("with_capacity", c, 0, sv)

DoReserveLarge ==
    \E additional \in OverflowAdditionals :
        /\ Idle
        /\ LET after == ReserveOutcome(sv, additional)
           IN  IF after.panic
               THEN /\ life' = "panicked"
                    /\ UNCHANGED sv
               ELSE /\ Len(after.sv.index) <= MaxBlocks
                    /\ sv' = after.sv
                    /\ UNCHANGED life
        /\ last' = Op("reserve", additional, 0, sv)
        /\ UNCHANGED <<pushed, iter, yielded, teardown>>

NextOverflow ==
    \/ DoPush
    \/ DoReserveLarge

SpecOverflow == InitOverflow /\ [][NextOverflow]_vars

\* ----------------------------------------------------------------- claims

\* The directory position (0-based) of the block whose index range holds
\* global index i, found by walking the directory.
BlockOf(i) ==
    CHOOSE k \in 0..(Len(sv.index) - 1) :
        /\ sv.index[k + 1].prev_cap <= i
        /\ i < sv.index[k + 1].prev_cap + sv.index[k + 1].cap

\* C1: a get(i) with i < length() returns the i-th element pushed
\* (0-based), whatever pushes, reserves and extends built the container.
C1_GetReturnsPushed ==
    (last.op = "get" /\ last.arg < SegVec_len(sv)) =>
        (last.ret.some /\ last.ret.val.elem = pushed[last.arg + 1])

\* C1 witness: a get of an element outside the first block of a container
\* that reserve or extend gave two empty blocks after the current one.
C1_Witness ==
    /\ last.op = "get"
    /\ Len(sv.index) >= sv.meta.empty_data_block + 3
    /\ last.arg < SegVec_len(sv)
    /\ BlockOf(last.arg) >= 1
    /\ last.ret.some
    /\ last.ret.val.elem = pushed[last.arg + 1]

\* C2: a get(i) with i >= length(), the boundary i = length() included,
\* returns None.
C2_GetAbsentFromLength ==
    (last.op = "get" /\ last.arg >= SegVec_len(sv)) => ~last.ret.some

\* C3: the indexing operator at i >= length(), the boundary i = length()
\* included, panics with a message carrying length() and i; it returns no
\* reference.
C3_IndexPanicsFromLength ==
    (last.op = "index" /\ last.arg >= SegVec_len(sv)) =>
        /\ last.ret.panic
        /\ last.ret.len = SegVec_len(sv)
        /\ last.ret.idx = last.arg

\* C4: get_mut(i) and the mutable indexing operator designate what get(i)
\* does: the i-th element pushed, in whichever block it lies, when
\* i < length(); None (a panic for the operator) when i >= length().
C4_GetMutDesignatesAsGet ==
    /\ last.op = "get_mut" =>
          IF last.arg < SegVec_len(sv)
          THEN /\ last.ret.some
               /\ last.ret.val.elem = pushed[last.arg + 1]
               /\ last.ret = SegVec_get(sv, last.arg, 0)
          ELSE ~last.ret.some
    /\ last.op = "index_mut" =>
          IF last.arg < SegVec_len(sv)
          THEN /\ ~last.ret.panic
               /\ last.ret.ref.elem = pushed[last.arg + 1]
          ELSE last.ret.panic

\* The capacity arguments C for which with_capacity(C) makes a container
\* with the first block this one has.
MadeWithCapacity ==
    {c \in 0..MaxCapArg :
        SegVec_with_capacity(sv.size, c).meta.initial_cap = sv.meta.initial_cap}

\* The push that has just run filled the block it wrote into.
LastPushFilled ==
    LET b == sv.index[BlockOf(last.pre.len) + 1] IN Block_is_full(b)

C6_PushReturnsOldLength ==
    (last.op = "push" /\ life = "live") =>
        /\ last.ret = last.pre.len
        /\ SegVec_len(sv) = last.pre.len + 1
        /\ pushed[last.ret + 1] = last.arg

\* C6 witness: a push right after the push that filled a block, into the
\* first slot of a later block.
C6_Witness ==
    /\ last.op = "push"
    /\ life = "live"
    /\ last.pre.len >= 1
    /\ BlockOf(last.pre.len) >= 1
    /\ sv.index[BlockOf(last.pre.len) + 1].prev_cap = last.pre.len
    /\ last.ret = last.pre.len

\* C7: after reserve(additional), capacity() - length() >= additional.
C7_ReserveEnsures ==
    (last.op = "reserve" /\ life = "live") =>
        SegVec_capacity(sv) - SegVec_len(sv) >= last.arg

\* C7 witness: a reserve on a container holding elements whose room was
\* short of the request, so that it had to append a block.
C7_Witness ==
    /\ last.op = "reserve"
    /\ last.pre.len >= 1
    /\ last.arg >= 2
    /\ last.pre.cap - last.pre.len < last.arg
    /\ Len(sv.index) > last.pre.nblocks
    /\ SegVec_capacity(sv) - SegVec_len(sv) >= last.arg

\* C8: reserve(additional) appends no block and leaves capacity() as it is
\* when capacity() - length() >= additional already (reserve(0) always);
\* otherwise it stops at the first block that makes it so: without the
\* last block appended the room was still short.
C8_ReserveMinimal ==
    (last.op = "reserve" /\ life = "live") =>
        IF last.pre.cap - last.pre.len >= last.arg
        THEN /\ Len(sv.index) = last.pre.nblocks
             /\ SegVec_capacity(sv) = last.pre.cap
        ELSE /\ Len(sv.index) > last.pre.nblocks
             /\ sv.index[Len(sv.index)].prev_cap - SegVec_len(sv) < last.arg

\* C8 witness: a reserve(additional > 0) that appended blocks and, by the
\* doubling, left more room than asked.
C8_Witness ==
    /\ last.op = "reserve"
    /\ last.arg >= 1
    /\ Len(sv.index) > last.pre.nblocks
    /\ SegVec_capacity(sv) - SegVec_len(sv) > last.arg
    /\ sv.index[Len(sv.index)].prev_cap - SegVec_len(sv) < last.arg

\* C9: every step leaves every block at its directory position and in its
\* region, and every written slot with its element: growth only appends.
C9_LocationsStable ==
    [][\A k \in 1..Len(sv.index) :
          /\ k <= Len(sv'.index)
          /\ sv'.index[k].ptr = sv.index[k].ptr
          /\ sv'.index[k].cap = sv.index[k].cap
          /\ sv'.index[k].prev_cap = sv.index[k].prev_cap
          /\ \A o \in 1..sv.index[k].len :
                sv'.index[k].mem[o] = sv.index[k].mem[o]]_vars

\* C9 witness: a reserve appended blocks to a container whose elements
\* lie in two blocks.
C9_Witness ==
    /\ last.op = "reserve"
    /\ Len(sv.index) > last.pre.nblocks
    /\ last.pre.nblocks >= 2
    /\ sv.index[2].len >= 1
    /\ sv.index[1].mem[1] = 1

\* C10 is checked on the runs of SpecBuilt, where `pushed` is the sequence
\* the container was built from.
\* C10: an iteration yields the elements pushed, in order; when next()
\* returns None it has yielded all of them.
C10_IterRoundTrip ==
    iter # None =>
        /\ Len(yielded) <= Len(pushed)
        /\ yielded = SubSeq(pushed, 1, Len(yielded))
        /\ (last.op = "next" /\ ~last.ret.some) => yielded = pushed

\* C10 witness: a container built by from_iter from three items, lying in
\* two blocks with an empty block after them, iterated to the end.
C10_Witness ==
    /\ pushed = <<1, 2, 3>>
    /\ Len(sv.index) = 3
    /\ sv.index[3].len = 0
    /\ iter # None
    /\ last.op = "next"
    /\ ~last.ret.some
    /\ yielded = pushed

\* C11: at every point of a traversal the length the iterator reports
\* (ExactSizeIterator::len and both bounds of size_hint) is the number of
\* elements it has yet to yield: length() less the number yielded so far.
C11_IterExactlySized ==
    iter # None =>
        LET left == SegVec_len(sv) - Len(yielded)
        IN  /\ Iter_len(iter.val) = left
            /\ Iter_size_hint(iter.val) = <<left, Some(left)>>

\* C12 is checked on the runs of SpecExtendOnly, where the content before
\* an extend is what the earlier extends gave: the elements of ranks
\* 1 .. length().
\* C12: an extend with sequence B of a container that earlier extends of
\* an empty container filled with A leaves length() = |A| + |B| and, for
\* every i, get(i) the i-th element of A followed by B.
C12_ExtendConcatenates ==
    (last.op = "extend" /\ life = "live") =>
        LET AB == Ranks(0, last.pre.len) \o last.arg
        IN  /\ SegVec_len(sv) = last.pre.len + Len(last.arg)
            /\ \A i \in 0..(Len(AB) - 1), garbage \in Garbage :
                   LET r == SegVec_get(sv, i, garbage)
                   IN  r.some /\ r.val.elem = AB[i + 1]

\* C12 witness: an extend with B of two or more elements after a
\* non-empty A, where B begins in one block and ends in the next.
C12_Witness ==
    /\ last.op = "extend"
    /\ life = "live"
    /\ last.pre.len >= 1
    /\ Len(last.arg) >= 2
    /\ SegVec_len(sv) = last.pre.len + Len(last.arg)
    /\ Len(sv.index) >= 2
    /\ last.pre.len < sv.index[2].prev_cap
    /\ sv.index[2].prev_cap < SegVec_len(sv)

\* The smallest power of two that is >= c, among those a usize can hold
\* and the one above them.
SmallestPowerOfTwoAtLeast(c) ==
    LET powers == {Pow2(k) : k \in 0..USIZE_BITS}
    IN  CHOOSE p \in powers :
            p >= c /\ \A q \in powers : q >= c => p <= q

\* C13: with_capacity(c) returns an empty container of exactly one block,
\* of capacity max(smallest power of two >= c, the element-size minimum),
\* so that capacity() >= c; new() returns an empty container with no
\* block and capacity() = 0.
C13_ConstructedEmpty ==
    /\ (last.op = "with_capacity" /\ life = "live") =>
           /\ SegVec_len(sv) = 0
           /\ Len(sv.index) = 1
           /\ sv.index[1].len = 0
           /\ sv.index[1].cap = Max(SmallestPowerOfTwoAtLeast(last.arg),
                                    MIN_NON_ZERO_CAP(sv.size))
           /\ SegVec_capacity(sv) = sv.index[1].cap
           /\ SegVec_capacity(sv) >= last.arg
    /\ last.op = "new" =>
           /\ SegVec_len(sv) = 0
           /\ sv.index = << >>
           /\ SegVec_capacity(sv) = 0

\* C13 witness: with_capacity(3) for elements whose minimum is 1: the
\* rounding, not the minimum, gives the block its 4 slots.
C13_Witness ==
    /\ last.op = "with_capacity"
    /\ last.arg = 3
    /\ MIN_NON_ZERO_CAP(sv.size) = 1
    /\ Len(sv.index) = 1
    /\ sv.index[1].cap = 4
    /\ SegVec_capacity(sv) = 4

\* C14: no step lowers capacity(), length() or the number of blocks of
\* the directory; in particular a reserve(b) that follows a reserve(a)
\* with b <= a leaves capacity() at least what reserve(a) produced.
C14_NeverShrinks ==
    [][/\ SegVec_capacity(sv') >= SegVec_capacity(sv)
       /\ SegVec_len(sv') >= SegVec_len(sv)
       /\ Len(sv'.index) >= Len(sv.index)
       /\ (/\ last.op = "reserve"
           /\ last'.op = "reserve"
           /\ last'.arg <= last.arg) =>
              SegVec_capacity(sv') >= SegVec_capacity(sv)]_vars

\* C14 witness: a reserve of a container holding elements that found the
\* room it asked for already reserved, in a block after the current one.
C14_Witness ==
    /\ last.op = "reserve"
    /\ life = "live"
    /\ last.arg >= 1
    /\ SegVec_len(sv) >= 1
    /\ Len(sv.index) = last.pre.nblocks
    /\ Len(sv.index) >= sv.meta.empty_data_block + 2

\* The sum of the capacities of the first n blocks of the directory.
RECURSIVE CapacityOfBlocks(_)
CapacityOfBlocks(n) ==
    IF n = 0 THEN 0 ELSE CapacityOfBlocks(n - 1) + sv.index[n].cap

\* C15: capacity() >= length(), and capacity() is the sum of the
\* capacities of all the blocks of the directory, the unused ones
\* included.
C15_CapacityIsSum ==
    /\ SegVec_capacity(sv) >= SegVec_len(sv)
    /\ SegVec_capacity(sv) = CapacityOfBlocks(Len(sv.index))

\* C15 witness: elements in two blocks, the second partly filled, and a
\* third block that is unused.
C15_Witness ==
    /\ Len(sv.index) = 3
    /\ sv.index[2].len >= 1
    /\ sv.index[2].len < sv.index[2].cap
    /\ sv.index[3].len = 0
    /\ SegVec_capacity(sv) > SegVec_len(sv) + sv.index[3].cap

\* C16 is checked on the runs of SpecOverflow.
\* C16: a with_capacity(c) or reserve(additional) whose request the
\* machine arithmetic or the address space cannot meet ends in a panic;
\* one that returns has capacity() >= c, respectively
\* capacity() - length() >= additional: nothing is clamped or wrapped.
C16_OverflowIsFatal ==
    life = "live" =>
        /\ last.op = "with_capacity" => SegVec_capacity(sv) >= last.arg
        /\ last.op = "reserve" =>
               SegVec_capacity(sv) - SegVec_len(sv) >= last.arg

\* The block a linear scan of the directory finds for global index i: the
\* first whose capacity, added to those before it, passes i (0-based).
LinearScan(i) ==
    CHOOSE k \in 0..(Len(sv.index) - 1) :
        CapacityOfBlocks(k) <= i /\ i < CapacityOfBlocks(k + 1)

\* C17: for every i < length(), locate(i) is the block a linear scan of
\* the directory finds; it is a block of the directory, and i less the
\* block's preceding count is the offset of a written slot of it.
C17_LocateAgreesWithScan ==
    \A i \in 0..(SegVec_len(sv) - 1) :
        LET k == SegVec_locate(sv, i)
        IN  /\ is_power_of_two(sv.meta.initial_cap)
            /\ k < Len(sv.index)
            /\ k = LinearScan(i)
            /\ 0 <= i - sv.index[k + 1].prev_cap
            /\ i - sv.index[k + 1].prev_cap < sv.index[k + 1].len

\* C17 witness: a container whose first block was asked for (not the
\* minimum), with elements in three blocks; the last element is located
\* in the third.
C17_Witness ==
    /\ sv.meta.initial_cap > MIN_NON_ZERO_CAP(sv.size)
    /\ Len(sv.index) >= 3
    /\ sv.index[3].len >= 1
    /\ SegVec_locate(sv, SegVec_len(sv) - 1) = 2
    /\ LinearScan(SegVec_len(sv) - 1) = 2

\* C18: block k of the directory (0-based) has initial_cap * 2^k slots:
\* block 0 has initial_cap and every later block twice the one before
\* it; no step changes initial_cap or block_shift.
C18_BlocksDouble ==
    /\ [](\A k \in 1..Len(sv.index) :
             /\ sv.index[k].cap = sv.meta.initial_cap * Pow2(k - 1)
             /\ k > 1 => sv.index[k].cap = 2 * sv.index[k - 1].cap)
    /\ [][/\ sv'.meta.initial_cap = sv.meta.initial_cap
          /\ sv'.meta.block_shift = sv.meta.block_shift]_vars

\* C18 witness: four blocks, appended by pushes that filled a block and
\* by a reserve, the fourth eight times the first.
C18_Witness ==
    /\ Len(sv.index) = 4
    /\ sv.index[4].cap = 8 * sv.index[1].cap
    /\ sv.meta.empty_data_block >= 1
    /\ last.op = "reserve"
    /\ Len(sv.index) > last.pre.nblocks

\* C19: the preceding count (prev_cap) of every block of the directory is
\* the sum of the capacities of the blocks before it, and no step
\* changes the prev_cap of a block.
C19_PrevCapIsSum ==
    /\ [](\A k \in 1..Len(sv.index) :
             sv.index[k].prev_cap = CapacityOfBlocks(k - 1))
    /\ [][\A k \in 1..Len(sv.index) :
             /\ k <= Len(sv'.index)
             /\ sv'.index[k].prev_cap = sv.index[k].prev_cap]_vars

\* C19 witness: a push into the third block, whose prev_cap is the
\* capacity of the first two, of a container that has a fourth.
C19_Witness ==
    /\ last.op = "push"
    /\ life = "live"
    /\ Len(sv.index) = 4
    /\ BlockOf(last.pre.len) = 2
    /\ sv.index[3].prev_cap = sv.index[1].cap + sv.index[2].cap
    /\ sv.index[3].prev_cap > 0

\* C20 as claimed: every block but the last of the directory is full;
\* only the last block may hold fewer elements than its capacity.
C20_OnlyLastBlockPartial ==
    \A k \in 1..(Len(sv.index) - 1) : sv.index[k].len = sv.index[k].cap

\* C20 as amended: every block before the current block (directory
\* position empty_data_block) is full, the current block is not full,
\* and every block after it, appended ahead of need by with_capacity,
\* reserve, extend or the push that filled the block before, is empty:
\* the current block is the only one that may be partly filled, but it
\* need not be the last of the directory.
C20_OnlyCurrentBlockPartial ==
    /\ sv.index # << >> => sv.meta.empty_data_block < Len(sv.index)
    /\ \A k \in 1..Len(sv.index) :
           /\ k < sv.meta.empty_data_block + 1 =>
                  sv.index[k].len = sv.index[k].cap
           /\ k = sv.meta.empty_data_block + 1 =>
                  sv.index[k].len < sv.index[k].cap
           /\ k > sv.meta.empty_data_block + 1 => sv.index[k].len = 0

\* C20 witness: a full block, then the current block partly filled, then
\* two empty blocks that a reserve appended.
C20_Witness ==
    /\ sv.meta.empty_data_block = 1
    /\ Len(sv.index) = 4
    /\ sv.index[1].len = sv.index[1].cap
    /\ sv.index[2].len >= 1
    /\ sv.index[2].len < sv.index[2].cap
    /\ sv.index[3].len = 0
    /\ sv.index[4].len = 0

\* C21: Block::push is never called on a full block. No push or extend
\* ends in the write into a full block, and in every state in which the
\* container can be pushed to, the block the next push writes into (the
\* one first_empty_block points at, or the one push appends when there is
\* none) has filled < capacity.
C21_NeverPushIntoFull ==
    /\ life # "ub"
    /\ life = "live" => ~PushIntoFull(sv)
    /\ (life = "live" /\ sv.first_empty_block # None
            /\ PtrLive(sv, sv.first_empty_block.val)) =>
           LET b == sv.index[sv.first_empty_block.val.pos + 1]
           IN  b.len < b.cap

\* C21 witness: a push has just written the last free slot of the third
\* block; the block the next push writes into is the empty fourth.
C21_Witness ==
    /\ last.op = "push"
    /\ life = "live"
    /\ LastPushFilled
    /\ BlockOf(last.pre.len) = 2
    /\ sv.first_empty_block.val.pos = 3
    /\ sv.index[4].len = 0

\* C22: first_empty_block is absent only while the directory is empty;
\* otherwise it points into the directory's present backing array, at
\* position empty_data_block, so that the write of a push never goes
\* through a stale pointer; every step that appends a block rebinds it,
\* also when the append moved the backing array.
C22_PointerNeverStale ==
    /\ [](/\ sv.first_empty_block = None <=> sv.index = << >>
          /\ sv.first_empty_block # None =>
                 /\ PtrLive(sv, sv.first_empty_block.val)
                 /\ sv.first_empty_block.val.pos = sv.meta.empty_data_block
          /\ life = "live" => ~PushDangling(sv)
          /\ last.op \in {"push", "extend"} => life # "ub")
    /\ [][Len(sv'.index) > Len(sv.index) =>
              sv'.first_empty_block =
                  Some([ buf |-> sv'.index_buf,
                         pos |-> sv'.meta.empty_data_block ])]_vars

\* C22 witness: the first push of a container made by new() allocated
\* the directory's backing array, filled the first block and appended a
\* second; the pointer is into the new array, at the second block.
C22_Witness ==
    /\ last.op = "push"
    /\ life = "live"
    /\ last.pre.nblocks = 0
    /\ sv.index_buf # SegVec_new(sv.size).index_buf
    /\ Len(sv.index) = 2
    /\ sv.first_empty_block = Some([buf |-> sv.index_buf, pos |-> 1])

\* C23: until the container is torn down no element is destructed and no
\* region released, whatever push, reserve, extend, the reads and the
\* traversals did; the teardown destructs every element pushed exactly
\* once, in index order, and no slot that was never written, and
\* releases the region of every block exactly once.
C23_TeardownExactlyOnce ==
    /\ life # "dropped" => teardown = NotTornDown
    /\ life = "dropped" =>
           /\ teardown.destructed = pushed
           /\ \A e \in 1..Len(teardown.destructed) :
                  teardown.destructed[e] # Uninit
           /\ Len(teardown.released) = Len(sv.index)
           /\ \A k \in 1..Len(sv.index) :
                  Cardinality({r \in 1..Len(teardown.released) :
                                  teardown.released[r] = sv.index[k].ptr}) = 1

\* C23 witness: the teardown of a container with a full block, a partly
\* filled block and a block never written to.
C23_Witness ==
    /\ life = "dropped"
    /\ Len(sv.index) = 3
    /\ sv.index[1].len = sv.index[1].cap
    /\ sv.index[2].len >= 1
    /\ sv.index[2].len < sv.index[2].cap
    /\ sv.index[3].len = 0
    /\ Len(teardown.destructed) = sv.index[1].cap + sv.index[2].len
    /\ Len(teardown.released) = 3

\* C24: in every state with at least one block, the blocks before the
\* current block (directory position empty_data_block) are full, those
\* after it are empty, and length() is the current block's preceding
\* count plus its filled count; hence locate(length()) names the current
\* block, however many empty blocks follow it.
C24_FillOrder ==
    sv.index # << >> =>
        LET current == sv.meta.empty_data_block + 1
        IN  /\ current <= Len(sv.index)
            /\ \A k \in 1..(current - 1) :
                   Block_is_full(sv.index[k])
            /\ \A k \in (current + 1)..Len(sv.index) :
                   sv.index[k].len = 0
            /\ SegVec_len(sv) =
                   sv.index[current].prev_cap + sv.index[current].len
            /\ SegVec_locate(sv, SegVec_len(sv)) = sv.meta.empty_data_block

\* C24 witness: a full block, the current block partly filled, and two
\* empty blocks that reserve and the growth of push appended after it.
C24_Witness ==
    /\ sv.meta.empty_data_block >= 1
    /\ Len(sv.index) >= sv.meta.empty_data_block + 3
    /\ sv.index[sv.meta.empty_data_block + 1].len >= 1
    /\ SegVec_locate(sv, SegVec_len(sv)) = sv.meta.empty_data_block
    /\ SegVec_len(sv) > sv.index[sv.meta.empty_data_block + 1].prev_cap

\* C25: a reserve that returns changes neither length(), nor what get(i)
\* returns for any i, nor the filled count (or anything else) of a block
\* the directory had, nor which directory position is the current block;
\* all it does is append empty blocks and raise capacity() by their
\* capacities.
C25_ReserveFrame ==
    [][(last'.op = "reserve" /\ life' = "live") =>
          /\ SegVec_len(sv') = SegVec_len(sv)
          /\ \A i \in 0..(SegVec_len(sv) + Beyond), garbage \in Garbage :
                 SegVec_get(sv', i, garbage) = SegVec_get(sv, i, garbage)
          /\ Len(sv'.index) >= Len(sv.index)
          /\ \A k \in 1..Len(sv.index) :
                 /\ sv'.index[k].len = sv.index[k].len
                 /\ sv'.index[k] = sv.index[k]
          /\ sv'.meta.empty_data_block = sv.meta.empty_data_block
          /\ sv.first_empty_block # None =>
                 sv'.first_empty_block.val.pos = sv.first_empty_block.val.pos
          /\ \A k \in (Len(sv.index) + 1)..Len(sv'.index) :
                 sv'.index[k].len = 0
          /\ SegVec_capacity(sv') >= SegVec_capacity(sv)
          /\ Len(sv'.index) = Len(sv.index) =>
                 SegVec_capacity(sv') = SegVec_capacity(sv)
          /\ pushed' = pushed]_vars

\* C25 witness: a reserve appended a block to a container whose current
\* block, the second, is partly filled; the current block is still the
\* second and the length what it was.
C25_Witness ==
    /\ last.op = "reserve"
    /\ life = "live"
    /\ Len(sv.index) > last.pre.nblocks
    /\ sv.meta.empty_data_block = 1
    /\ sv.index[2].len >= 1
    /\ sv.index[Len(sv.index)].len = 0
    /\ SegVec_len(sv) = last.pre.len
    /\ SegVec_capacity(sv) > last.pre.cap

====
